---- MODULE Spec2Model ----
(***************************************************************************)
(* Model of scripts/eval_bop24_pose.py: the per-submission evaluation      *)
(* loop (timing validation, error stage, score stage in sequential or pool *)
(* mode, three-pass mAP aggregation, final scores).                        *)
(*                                                                         *)
(* Numbers.  Estimation times are integers in units of 1/TimeScale second, *)
(* so the tolerance 0.001 of line 120 is Tol = 1 and the sentinel -1.0 of  *)
(* line 131 is the rational -TimeScale/1.  Recall scores are integers in   *)
(* tenths.  np.mean is exact rational arithmetic here (a normalised pair   *)
(* <<num, den>>), and the mean of an empty list is the value NaN = 0/0.    *)
(***************************************************************************)
EXTENDS Integers, Sequences, FiniteSets, TLC

\* ------------------------------------------------------------------ bounds
MaxEsts == 3
MaxTime == 2
MaxImId == 2
MaxObjId == 2
NumThs == 2
MaxRecorded == 3

\* ------------------------------------------------------- program constants
TimeScale == 1000
Tol == 1

\* ------------------------------------------------------------- arithmetic
Abs(x) == IF x < 0 THEN -x ELSE x

RECURSIVE GCD(_, _)
GCD(a, b) == IF b = 0 THEN a ELSE GCD(b, a % b)

\* The undefined mean 0/0.
NaN == <<0, 0>>

\* The rational n/d (d > 0) in lowest terms.
Rat(n, d) == LET g == GCD(Abs(n), d) IN <<n \div g, d \div g>>

RatAdd(p, q) == Rat(p[1] * q[2] + q[1] * p[2], p[2] * q[2])

RECURSIVE SumSeq(_)
SumSeq(s) == IF s = <<>> THEN 0 ELSE Head(s) + SumSeq(Tail(s))

RECURSIVE RatSumSeq(_)
RatSumSeq(s) == IF s = <<>> THEN <<0, 1>> ELSE RatAdd(Head(s), RatSumSeq(Tail(s)))

\* Mutant of MeanInts: the mean is taken by integer division.
MeanIntsFloor(s) == IF s = <<>> THEN NaN ELSE <<SumSeq(s) \div Len(s), 1>>

\* np.mean of a list of integers.
MeanInts(s) == IF s = <<>> THEN NaN ELSE Rat(SumSeq(s), Len(s))

\* Mutant of MeanRats: the mean of no value is 0.
MeanRatsZero(s) ==
    IF s = <<>> THEN <<0, 1>>
    ELSE IF \E i \in 1..Len(s) : s[i] = NaN THEN NaN
    ELSE LET t == RatSumSeq(s) IN Rat(t[1], t[2] * Len(s))

\* np.mean of a list of means (NaN propagates).
MeanRats(s) ==
    IF s = <<>> \/ \E i \in 1..Len(s) : s[i] = NaN THEN NaN
    ELSE LET t == RatSumSeq(s) IN Rat(t[1], t[2] * Len(s))

\* list(d.values()) of a dict kept as an insertion-ordered sequence of
\* <<key, value>> pairs.
Values(d) == [i \in 1..Len(d) |-> d[i][2]]

Keys(d) == {d[i][1] : i \in 1..Len(d)}

Lookup(d, k) == d[CHOOSE i \in 1..Len(d) : d[i][1] = k][2]

\* ------------------------------------------------------------ configuration
\* p["errors"] (lines 25-36): the error types in configuration order; each has
\* NumThs correctness thresholds (10 in the shipped configuration).
Errors == <<"mssd", "mspd">>

ErrIdx == 1..Len(Errors)

Ths == 1..NumThs

\* A result filename is its sequence of path components (extension dropped).
\* Every base name is well formed (method_dataset-split), so line 105 and
\* the loading of line 108 do not raise.
Filenames == {<<"a", "r">>, <<"b", "r">>, <<"q">>}

\* Line 104: os.path.splitext(os.path.basename(result_filename))[0].
ResultName(f) == f[Len(f)]

ResultNames == {ResultName(f) : f \in Filenames}

\* The lists of result files of the whole-pipeline specification: two
\* submissions, of the same or of different base names.
ResultFilenameLists == {<<<<"a", "r">>, <<"b", "r">>>>, <<<<"a", "r">>, <<"q">>>>}

NumWorkersValues == {-1, 0, 1, 2}

\* ------------------------------------------------------------------ inputs
SceneIds == {1}

ImIds == 1..MaxImId

EstTimes == {-TimeScale} \cup (0..MaxTime)

Ests == [scene_id : SceneIds, im_id : ImIds, time : EstTimes]

EstSeqs == UNION {[1..n -> Ests] : n \in 0..MaxEsts}

Est(s, i, t) == [scene_id |-> s, im_id |-> i, time |-> t]

\* The result files the whole-pipeline specification evaluates: one timed
\* estimate, one estimate without a time, two estimates of one image whose
\* times differ by more than Tol.
PipelineEstSeqs ==
    {<<Est(1, 1, 0)>>, <<Est(1, 1, -TimeScale)>>, <<Est(1, 1, 0), Est(1, 1, Tol + 1)>>}

\* A path of the evaluation folder holds no file (<<>>) or one file (<<f>>).
Missing == <<>>

File(f) == <<f>>

ObjIds == 1..MaxObjId

\* A ScoreFile: "scores" and "num_instances_per_object" over the same object
\* ids, listed in ascending order of id.  An object without instances has
\* recall 0 (its score is never read, line 238).
ScoreFiles ==
    UNION {[O -> {[score |-> 0, n |-> 0], [score |-> 1, n |-> 1]}]
           : O \in SUBSET ObjIds}

\* The score files the external score stage writes in the whole-pipeline
\* specification: datasets of a single object.
PipelineScoreFiles == {[o \in {1} |-> [score |-> 1, n |-> n]] : n \in 0..1}

\* What an earlier run may have left at the paths of the score files.
StaleScoreFiles == {Missing, File([o \in {1} |-> [score |-> 1, n |-> 1]])}

VARIABLES
    num_workers,              \* p["num_workers"]
    result_filenames,         \* p["result_filenames"]
    pc,                       \* position of the main process
    raised,                   \* the uncaught exception that ended the run
    sub,                      \* index of result_filename in the outer loop
    ests, est_i,              \* loaded estimates, loop index of line 113
    times, times_available, average_time_per_image,
    err,                      \* index of error in p["errors"] (line 136)
    calc_errors,              \* the error subprocess of the current error type
    cmd_i,                    \* loop index of line 200 (sequential mode)
    tasks,                    \* the score tasks of the current error type
    workers,                  \* pool worker -> task it runs (0: idle)
    score_files,              \* eval_path: <<result_name, error, th>> -> file
    final_files,              \* eval_path: result_name -> scores_bop24.json
    th_i, scores, num_instances_per_object,
    mAP_scores_per_object, num_object_ids_ignored,
    obj_i, mAP_over_correct_ths, mAP_per_error_type,
    hist                      \* history: the events of the run so far

config_vars == <<num_workers, result_filenames>>

timing_vars == <<ests, est_i, times, times_available, average_time_per_image>>

stage_vars == <<err, calc_errors, cmd_i, tasks, workers>>

agg_vars == <<th_i, scores, num_instances_per_object, mAP_scores_per_object,
              num_object_ids_ignored, obj_i, mAP_over_correct_ths>>

vars == <<num_workers, result_filenames, pc, raised, sub, ests, est_i, times,
          times_available, average_time_per_image, err, calc_errors, cmd_i,
          tasks, workers, score_files, final_files, th_i, scores,
          num_instances_per_object, mAP_scores_per_object,
          num_object_ids_ignored, obj_i, mAP_over_correct_ths,
          mAP_per_error_type, hist>>

NoTasks == [t \in Ths |-> "none"]

\* The state at line 93, before the first submission.  The evaluation folder
\* may hold score files of an earlier run (all stale files alike here).
Init ==
    /\ num_workers \in NumWorkersValues
    /\ result_filenames \in ResultFilenameLists
    /\ pc = "load_results"
    /\ raised = "none"
    /\ sub = 1
    /\ ests = <<>> /\ est_i = 1
    /\ times = <<>> /\ times_available = TRUE
    /\ average_time_per_image = NaN
    /\ err = 1
    /\ calc_errors = "none"
    /\ cmd_i = 1
    /\ tasks = NoTasks
    /\ workers = <<>>
    /\ \E stale \in StaleScoreFiles :
          score_files = [f \in ResultNames \X ErrIdx \X Ths |-> stale]
    /\ final_files = [n \in ResultNames |-> Missing]
    /\ th_i = 1 /\ scores = <<>> /\ num_instances_per_object = <<>>
    /\ mAP_scores_per_object = <<>> /\ num_object_ids_ignored = <<>>
    /\ obj_i = 1 /\ mAP_over_correct_ths = <<>>
    /\ mAP_per_error_type = <<>>
    /\ hist = {}

\* Mutant of Abort: the exception is caught and the outer loop goes on.
AbortCaught(exc) == pc' = "load_results" /\ raised' = exc

\* An exception that nothing catches ends the process.
Abort(exc) == pc' = "aborted" /\ raised' = exc

\* ------------------------------------------------------- timing validation
\* Line 114: "{:06d}_{:06d}".format(scene_id, im_id).  The format is
\* injective on pairs of integers, so the key is kept as the pair.
ResultKey(est) == <<est.scene_id, est.im_id>>

\* Mutant of TimesDiffer: the tolerance itself is reported as a difference.
TimesDifferAtTol(recorded, t) == Abs(recorded - t) >= Tol

\* Line 120: the test of a repeated key against the recorded time.
TimesDiffer(recorded, t) == Abs(recorded - t) > Tol

\* Mutant of AverageTimePerImage: the mean of the times recorded before the
\* break is reported although a time is missing.
AverageTimePartial(ts, available) == MeanInts(Values(ts))

\* Lines 128-131.
AverageTimePerImage(ts, available) ==
    IF available THEN MeanInts(Values(ts)) ELSE <<-TimeScale, 1>>

\* Lines 98-110: a new iteration of the outer loop loads the result file.
LoadResults(Files) ==
    /\ pc = "load_results"
    /\ ests' \in Files
    /\ est_i' = 1
    /\ times' = <<>>
    /\ times_available' = TRUE
    /\ pc' = "timing"
    /\ UNCHANGED <<config_vars, raised, sub, average_time_per_image, stage_vars,
                   score_files, final_files, agg_vars, mAP_per_error_type, hist>>

\* Lines 113-126: one iteration of the loop over the estimates.
TimingStep ==
    /\ pc = "timing"
    /\ times_available
    /\ est_i <= Len(ests)
    /\ LET est == ests[est_i]
           result_key == ResultKey(est)
       IN  IF est.time < 0
           THEN /\ times_available' = FALSE
                /\ UNCHANGED <<times, est_i, pc, raised>>
           ELSE IF result_key \in Keys(times)
           THEN IF TimesDiffer(Lookup(times, result_key), est.time)
                THEN /\ Abort("ValueError")
                     /\ UNCHANGED <<times, est_i, times_available>>
                ELSE /\ est_i' = est_i + 1
                     /\ UNCHANGED <<times, times_available, pc, raised>>
           ELSE /\ times' = Append(times, <<result_key, est.time>>)
                /\ est_i' = est_i + 1
                /\ UNCHANGED <<times_available, pc, raised>>
    /\ UNCHANGED <<config_vars, sub, ests, average_time_per_image, stage_vars,
                   score_files, final_files, agg_vars, mAP_per_error_type, hist>>

\* Lines 128-134: the loop is over (exhausted or left by break).
AverageTime ==
    /\ pc = "timing"
    /\ ~times_available \/ est_i > Len(ests)
    /\ average_time_per_image' = AverageTimePerImage(times, times_available)
    /\ mAP_per_error_type' = <<>>
    /\ err' = 1
    /\ pc' = "calc_errors"
    /\ hist' = hist \cup {<<"timing_done", sub>>}
    /\ UNCHANGED <<config_vars, raised, sub, ests, est_i, times, times_available,
                   calc_errors, cmd_i, tasks, workers, score_files, final_files,
                   agg_vars>>

NextTiming ==
    \/ LoadResults(EstSeqs)
    \/ TimingStep
    \/ AverageTime

\* Timing validation of one submission, over every estimate sequence.
InitTiming ==
    /\ Init
    /\ num_workers = 1
    /\ result_filenames = <<<<"a", "r">>, <<"q">>>>
    /\ \A f \in DOMAIN score_files : score_files[f] = Missing

SpecTiming == InitTiming /\ [][NextTiming]_vars

\* ------------------------------------------------ claims: timing validation
TimingOver == pc \in {"calc_errors", "aborted"}

SameImage(i, j) == ResultKey(ests[i]) = ResultKey(ests[j])

FirstOfImage(i) == \A h \in 1..(i - 1) : ~SameImage(h, i)

\* Estimate j is reached by the scan (no estimate up to j lacks its time) and
\* is more than Tol away from the first estimate of its image.
Detected(j) ==
    /\ \A i \in 1..j : ests[i].time >= 0
    /\ \E i \in 1..(j - 1) :
          /\ SameImage(i, j)
          /\ FirstOfImage(i)
          /\ Abs(ests[i].time - ests[j].time) > Tol

ReportedPairApart ==
    \E i, j \in 1..Len(ests) :
        /\ i < j /\ SameImage(i, j)
        /\ ests[i].time >= 0 /\ ests[j].time >= 0
        /\ Abs(ests[i].time - ests[j].time) > Tol

\* C7 as stated: validation fails whenever two estimates of one image report
\* times more than 1e-3 apart, and succeeds otherwise.
C7_Original ==
    TimingOver => (raised = "ValueError" <=> ReportedPairApart)

\* C7 (amended): validation fails exactly when the scan, before it meets an
\* estimate without a time, meets an estimate more than 1e-3 away from the
\* FIRST time recorded for its image; when every two estimates of an image
\* are within 1e-3 of each other, validation succeeds.
C7_TimingConsistency ==
    TimingOver =>
        /\ raised = "ValueError" <=> \E j \in 1..Len(ests) : Detected(j)
        /\ ~ReportedPairApart => raised = "none"

\* Validation failed on the third estimate of a submission.
C7_Witness ==
    /\ pc = "aborted" /\ raised = "ValueError"
    /\ Len(ests) = 3 /\ est_i = 3

ImagesOf(es) == {ResultKey(es[i]) : i \in 1..Len(es)}

FirstTime(es, k) ==
    es[CHOOSE i \in 1..Len(es) :
          /\ ResultKey(es[i]) = k
          /\ \A h \in 1..(i - 1) : ResultKey(es[h]) # k].time

RECURSIVE SumFirstTimes(_, _)
SumFirstTimes(es, K) ==
    IF K = {} THEN 0
    ELSE LET k == CHOOSE x \in K : TRUE
         IN  FirstTime(es, k) + SumFirstTimes(es, K \ {k})

\* C8: once the average is computed, it is exactly -1.0 if any estimate has
\* time < 0; otherwise it is the sum of the per-image times (the first time
\* of each distinct image) divided by the number of images (NaN for none).
C8_TimingAvailability ==
    pc = "calc_errors" =>
        IF \E i \in 1..Len(ests) : ests[i].time < 0
        THEN average_time_per_image = <<-TimeScale, 1>>
        ELSE IF ests = <<>>
        THEN average_time_per_image = NaN
        ELSE /\ average_time_per_image # NaN
             /\ average_time_per_image[2] > 0
             /\ average_time_per_image[1] * Cardinality(ImagesOf(ests))
                  = average_time_per_image[2] * SumFirstTimes(ests, ImagesOf(ests))

\* The mean 1/2 over the two images of a submission with three timed
\* estimates (one time per image, not one per estimate).
C8_Witness ==
    /\ pc = "calc_errors"
    /\ Len(ests) = 3 /\ Cardinality(ImagesOf(ests)) = 2
    /\ \A i \in 1..3 : ests[i].time >= 0
    /\ average_time_per_image = <<1, 2>>

\* ------------------------------------------------------------ stage dispatch
\* Termination statuses of an external task: zero, or not.
ExitStatuses == {0, 1}

\* eval_path/result_name/error_sign/scores_<th>.json (lines 223-228).
ScoresPath(k, e, t) == <<ResultName(result_filenames[k]), e, t>>

\* Lines 136-160: the error subprocess of the current error type is started.
StartCalcErrors ==
    /\ pc = "calc_errors"
    /\ calc_errors' = "running"
    /\ tasks' = NoTasks
    /\ pc' = "wait_errors"
    /\ hist' = hist \cup {<<"error_start", sub, err>>}
    /\ UNCHANGED <<config_vars, raised, sub, timing_vars, err, cmd_i, workers,
                   score_files, final_files, agg_vars, mAP_per_error_type>>

\* Mutant of ErrorsFailed: the status of the error subprocess is not looked at.
ErrorsFailedIgnored(status) == FALSE

\* Line 160: subprocess.call(calc_errors_cmd) != 0.
ErrorsFailed(status) == status # 0

\* Lines 160-171: the error subprocess terminates and its status is checked.
CalcErrorsReturn(status) ==
    /\ pc = "wait_errors"
    /\ calc_errors = "running"
    /\ calc_errors' = IF status = 0 THEN "ok" ELSE "failed"
    /\ hist' = hist \cup {<<"error_end", sub, err, status>>}
    /\ IF ErrorsFailed(status)
       THEN Abort("RuntimeError:errors")
       ELSE pc' = "dispatch" /\ raised' = raised
    /\ UNCHANGED <<config_vars, sub, timing_vars, err, cmd_i, tasks, workers,
                   score_files, final_files, agg_vars, mAP_per_error_type>>

\* Mutant of Sequential: every positive worker count runs the tasks in line.
SequentialAnyPositive(n) == n >= 1

\* Mutant of Sequential: a worker count below one runs the tasks in line too.
SequentialUpToOne(n) == n <= 1

\* Line 199: the mode of the score stage.
Sequential(n) == n = 1

\* Lines 199-200: sequential mode is entered.
EnterSequential ==
    /\ pc = "dispatch"
    /\ Sequential(num_workers)
    /\ cmd_i' = 1
    /\ pc' = "seq_scores"
    /\ UNCHANGED <<config_vars, raised, sub, timing_vars, err, calc_errors, tasks,
                   workers, score_files, final_files, agg_vars,
                   mAP_per_error_type, hist>>

\* Lines 200-202: the next score command is started.
StartScoreCmd ==
    /\ pc = "seq_scores"
    /\ cmd_i <= NumThs
    /\ tasks' = [tasks EXCEPT ![cmd_i] = "running"]
    /\ pc' = "wait_score"
    /\ hist' = hist \cup {<<"score_start", sub, err, cmd_i>>}
    /\ UNCHANGED <<config_vars, raised, sub, timing_vars, err, calc_errors, cmd_i,
                   workers, score_files, final_files, agg_vars, mAP_per_error_type>>

\* Mutant of ScoreFailed: the status of a score command is not looked at.
ScoreFailedIgnored(status) == FALSE

\* Line 202: subprocess.call(calc_scores_cmd) != 0.
ScoreFailed(status) == status # 0

\* The effect of a terminated score task on the evaluation folder: with
\* status zero its ScoreFile is written, otherwise the path is left as it was.
TaskOutput(k, e, t, status, out) ==
    IF status = 0 THEN [score_files EXCEPT ![ScoresPath(k, e, t)] = File(out)]
    ELSE score_files

\* Lines 202-203: the score command terminates and its status is checked.
ScoreCmdReturn(status, out) ==
    /\ pc = "wait_score"
    /\ tasks[cmd_i] = "running"
    /\ score_files' = TaskOutput(sub, err, cmd_i, status, out)
    /\ hist' = hist \cup {<<"score_end", sub, err, cmd_i>>}
    /\ IF ScoreFailed(status)
       THEN /\ tasks' = [tasks EXCEPT ![cmd_i] = "failed"]
            /\ Abort("RuntimeError:scores")
            /\ cmd_i' = cmd_i
       ELSE /\ tasks' = [tasks EXCEPT ![cmd_i] = IF status = 0 THEN "ok" ELSE "failed"]
            /\ cmd_i' = cmd_i + 1
            /\ pc' = IF cmd_i = NumThs THEN "aggregate" ELSE "seq_scores"
            /\ raised' = raised
    /\ UNCHANGED <<config_vars, sub, timing_vars, err, calc_errors, workers,
                   final_files, agg_vars, mAP_per_error_type>>

\* Lines 205-207: multiprocessing.Pool(num_workers) (a ValueError below one
\* process), map_async of every score command, close.
PoolDispatch ==
    /\ pc = "dispatch"
    /\ ~Sequential(num_workers)
    /\ IF num_workers < 1
       THEN /\ Abort("ValueError:pool")
            /\ UNCHANGED <<tasks, workers>>
       ELSE /\ workers' = [w \in 1..num_workers |-> 0]
            /\ tasks' = [t \in Ths |-> "queued"]
            /\ pc' = "pool_join"
            /\ raised' = raised
    /\ UNCHANGED <<config_vars, sub, timing_vars, err, calc_errors, cmd_i,
                   score_files, final_files, agg_vars, mAP_per_error_type, hist>>

\* An idle pool worker takes a queued task (the chunks of map_async fix no
\* order of start among the tasks).
WorkerStart(w, t) ==
    /\ w \in DOMAIN workers
    /\ workers[w] = 0
    /\ tasks[t] = "queued"
    /\ workers' = [workers EXCEPT ![w] = t]
    /\ tasks' = [tasks EXCEPT ![t] = "running"]
    /\ hist' = hist \cup {<<"score_start", sub, err, t>>}
    /\ UNCHANGED <<config_vars, pc, raised, sub, timing_vars, err, calc_errors,
                   cmd_i, score_files, final_files, agg_vars, mAP_per_error_type>>

\* The task of a pool worker terminates; map_async keeps the outcome in a
\* result object that is never read (line 206).
WorkerFinish(w, status, out) ==
    /\ w \in DOMAIN workers
    /\ workers[w] # 0
    /\ LET t == workers[w]
       IN  /\ tasks' = [tasks EXCEPT ![t] = IF status = 0 THEN "ok" ELSE "failed"]
           /\ score_files' = TaskOutput(sub, err, t, status, out)
           /\ hist' = hist \cup {<<"score_end", sub, err, t>>}
    /\ workers' = [workers EXCEPT ![w] = 0]
    /\ UNCHANGED <<config_vars, pc, raised, sub, timing_vars, err, calc_errors,
                   cmd_i, final_files, agg_vars, mAP_per_error_type>>

\* Mutant of PoolDrained: join returns as soon as no task is left in the queue.
PoolQueueEmpty(ts) == \A t \in Ths : ts[t] # "queued"

\* pool.join() returns when the workers have exited, that is when every task
\* handed to the pool has terminated.
PoolDrained(ts) == \A t \in Ths : ts[t] \in {"ok", "failed"}

\* Line 208: pool.join() returns.
PoolJoin ==
    /\ pc = "pool_join"
    /\ PoolDrained(tasks)
    /\ workers' = <<>>
    /\ pc' = "aggregate"
    /\ UNCHANGED <<config_vars, raised, sub, timing_vars, err, calc_errors, cmd_i,
                   tasks, score_files, final_files, agg_vars, mAP_per_error_type,
                   hist>>

\* --------------------------------------------------------------- aggregation
Min(S) == CHOOSE x \in S : \A y \in S : x <= y

\* mAP_scores_per_object.setdefault(obj_id, []).append(score) (line 239).
SetDefaultAppend(d, k, v) ==
    IF k \in Keys(d)
    THEN [i \in 1..Len(d) |-> IF d[i][1] = k THEN <<k, Append(d[i][2], v)>> ELSE d[i]]
    ELSE Append(d, <<k, <<v>>>>)

\* Mutant of Counted: an object without instances is averaged like the others.
CountedAlways(n) == TRUE

\* Line 238: num_instances_per_object[obj_id] > 0.
Counted(n) == n > 0

\* Lines 237-244: the loop over the objects of one ScoreFile, in the order of
\* the file; acc is <<mAP_scores_per_object, num_object_ids_ignored>>.
RECURSIVE PerThresholdPass(_, _, _)
PerThresholdPass(f, todo, acc) ==
    IF todo = {} THEN acc
    ELSE LET obj_id == Min(todo)
         IN  PerThresholdPass(f, todo \ {obj_id},
                IF Counted(f[obj_id].n)
                THEN <<SetDefaultAppend(acc[1], obj_id, f[obj_id].score), acc[2]>>
                ELSE <<acc[1], Append(acc[2], obj_id)>>)

\* Mutant of FreshIgnoredList: the list is created once, outside the loop over
\* the error types.
KeptIgnoredList(old) == old

\* Line 217: num_object_ids_ignored = [] inside the loop over the error types.
FreshIgnoredList(old) == <<>>

\* Lines 217-219: the lists of the aggregation start empty for each error type.
BeginAggregation ==
    /\ pc = "aggregate"
    /\ num_object_ids_ignored' = FreshIgnoredList(num_object_ids_ignored)
    /\ mAP_scores_per_object' = <<>>
    /\ th_i' = 1
    /\ pc' = "load_scores"
    /\ UNCHANGED <<config_vars, raised, sub, timing_vars, stage_vars, score_files,
                   final_files, scores, num_instances_per_object, obj_i,
                   mAP_over_correct_ths, mAP_per_error_type, hist>>

\* Lines 221-232: the first load_json of the ScoreFile of threshold th_i
\* (an error when the path holds no file).
LoadScores ==
    /\ pc = "load_scores"
    /\ LET file == score_files[ScoresPath(sub, err, th_i)]
       IN  IF file = Missing
           THEN /\ Abort("IOError")
                /\ UNCHANGED <<scores, hist>>
           ELSE /\ scores' = [o \in DOMAIN file[1] |-> file[1][o].score]
                /\ hist' = hist \cup {<<"load_json", sub, err, th_i, 1>>}
                /\ pc' = "load_num_instances"
                /\ raised' = raised
    /\ UNCHANGED <<config_vars, sub, timing_vars, stage_vars, score_files,
                   final_files, th_i, num_instances_per_object,
                   mAP_scores_per_object, num_object_ids_ignored, obj_i,
                   mAP_over_correct_ths, mAP_per_error_type>>

\* Lines 233-252: the second load_json of the same path, the loop over the
\* objects of the file and, after the last threshold, the start of loop 2.
LoadNumInstances ==
    /\ pc = "load_num_instances"
    /\ LET file == score_files[ScoresPath(sub, err, th_i)]
       IN  IF file = Missing
           THEN /\ Abort("IOError")
                /\ UNCHANGED <<num_instances_per_object, mAP_scores_per_object,
                               num_object_ids_ignored, th_i, obj_i,
                               mAP_over_correct_ths, hist>>
           ELSE LET num == [o \in DOMAIN file[1] |-> file[1][o].n]
                    f == [o \in DOMAIN scores |-> [score |-> scores[o], n |-> num[o]]]
                    acc == PerThresholdPass(f, DOMAIN scores,
                              <<mAP_scores_per_object, num_object_ids_ignored>>)
                IN  /\ num_instances_per_object' = num
                    /\ mAP_scores_per_object' = acc[1]
                    /\ num_object_ids_ignored' = acc[2]
                    /\ hist' = hist \cup {<<"load_json", sub, err, th_i, 2>>}
                    /\ th_i' = th_i + 1
                    /\ raised' = raised
                    /\ IF th_i = NumThs
                       THEN /\ pc' = "per_object"
                            /\ obj_i' = 1
                            /\ mAP_over_correct_ths' = <<>>
                       ELSE /\ pc' = "load_scores"
                            /\ UNCHANGED <<obj_i, mAP_over_correct_ths>>
    /\ UNCHANGED <<config_vars, sub, timing_vars, stage_vars, score_files,
                   final_files, scores, mAP_per_error_type>>

InList(x, s) == \E i \in 1..Len(s) : s[i] = x

\* Mutant of Ignored: the assertion of line 255 is compiled away.
IgnoredNever(obj_id, ignored) == FALSE

\* Line 255: the negation of the asserted condition.
Ignored(obj_id, ignored) == InList(obj_id, ignored)

\* Lines 253-261: one iteration of the loop over the averaged objects.
PerObjectStep ==
    /\ pc = "per_object"
    /\ obj_i <= Len(mAP_scores_per_object)
    /\ LET obj_id == mAP_scores_per_object[obj_i][1]
       IN  IF Ignored(obj_id, num_object_ids_ignored)
           THEN /\ Abort("AssertionError")
                /\ UNCHANGED <<obj_i, mAP_over_correct_ths>>
           ELSE /\ mAP_over_correct_ths' =
                      Append(mAP_over_correct_ths,
                             MeanInts(mAP_scores_per_object[obj_i][2]))
                /\ obj_i' = obj_i + 1
                /\ UNCHANGED <<pc, raised>>
    /\ UNCHANGED <<config_vars, sub, timing_vars, stage_vars, score_files,
                   final_files, th_i, scores, num_instances_per_object,
                   mAP_scores_per_object, num_object_ids_ignored,
                   mAP_per_error_type, hist>>

\* Lines 262-265 and the step of the loop of line 136: the mAP of the error
\* type is the mean of the per-object means.
ErrorTypeMAP ==
    /\ pc = "per_object"
    /\ obj_i > Len(mAP_scores_per_object)
    /\ mAP_per_error_type' =
          Append(mAP_per_error_type, <<Errors[err], MeanRats(mAP_over_correct_ths)>>)
    /\ hist' = hist \cup {<<"mAP", sub, err>>}
    /\ IF err < Len(Errors)
       THEN err' = err + 1 /\ pc' = "calc_errors"
       ELSE err' = err /\ pc' = "final_scores"
    /\ UNCHANGED <<config_vars, raised, sub, timing_vars, calc_errors, cmd_i, tasks,
                   workers, score_files, final_files, agg_vars>>

\* Mutant of FinalScores: the combined mAP is the mAP of the first error type.
FinalScoresFirstOnly(mAPs, avg_time) ==
    [bop24_mAP_mssd |-> Lookup(mAPs, "mssd"),
     bop24_mAP_mspd |-> Lookup(mAPs, "mspd"),
     bop24_mAP |-> Lookup(mAPs, "mssd"),
     bop24_average_time_per_image |-> avg_time]

\* Lines 270-283.
FinalScores(mAPs, avg_time) ==
    [bop24_mAP_mssd |-> Lookup(mAPs, "mssd"),
     bop24_mAP_mspd |-> Lookup(mAPs, "mspd"),
     bop24_mAP |-> MeanRats(<<Lookup(mAPs, "mssd"), Lookup(mAPs, "mspd")>>),
     bop24_average_time_per_image |-> avg_time]

\* Lines 267-292 and the step of the loop of line 93: the final scores are
\* saved under eval_path/result_name.
SaveFinalScores ==
    /\ pc = "final_scores"
    /\ final_files' =
          [final_files EXCEPT ![ResultName(result_filenames[sub])] =
              File(FinalScores(mAP_per_error_type, average_time_per_image))]
    /\ hist' = hist \cup {<<"save_final", sub>>}
    /\ IF sub < Len(result_filenames)
       THEN sub' = sub + 1 /\ pc' = "load_results"
       ELSE sub' = sub /\ pc' = "done"
    /\ UNCHANGED <<config_vars, raised, timing_vars, stage_vars, score_files,
                   agg_vars, mAP_per_error_type>>

\* ----------------------------------------------------------- specifications
Next ==
    \/ LoadResults(PipelineEstSeqs)
    \/ TimingStep
    \/ AverageTime
    \/ StartCalcErrors
    \/ \E status \in ExitStatuses : CalcErrorsReturn(status)
    \/ EnterSequential
    \/ StartScoreCmd
    \/ \E status \in ExitStatuses, out \in PipelineScoreFiles :
          ScoreCmdReturn(status, out)
    \/ PoolDispatch
    \/ \E w \in 1..2, t \in Ths : WorkerStart(w, t)
    \/ \E w \in 1..2, status \in ExitStatuses, out \in PipelineScoreFiles :
          WorkerFinish(w, status, out)
    \/ PoolJoin
    \/ BeginAggregation
    \/ LoadScores
    \/ LoadNumInstances
    \/ PerObjectStep
    \/ ErrorTypeMAP
    \/ SaveFinalScores

Spec == Init /\ [][Next]_vars

\* ------------------------------------------------- claims: stage dispatch
Subs == 1..Len(result_filenames)

ScoreStarted(k, e) == \E t \in Ths : <<"score_start", k, e, t>> \in hist

ScoresLoaded(k, e) == \E t \in Ths, c \in 1..2 : <<"load_json", k, e, t, c>> \in hist

\* C1: a score task of error type e of submission k has started only if the
\* error computation of e for k has terminated with status zero (sequential
\* and pool mode alike).
C1_ErrorsBeforeScores ==
    \A k \in Subs, e \in ErrIdx :
        ScoreStarted(k, e) => <<"error_end", k, e, 0>> \in hist

\* Two score tasks of the second error type run in the pool.
C1_Witness ==
    /\ num_workers = 2 /\ err = 2
    /\ \A t \in 1..2 : tasks[t] = "running"

\* C2: the aggregation has read a ScoreFile of the current error type only if
\* no score task handed out for it is still queued or running, and every
\* task that started has terminated.
C2_WaitForAll ==
    \A k \in Subs, e \in ErrIdx :
        ScoresLoaded(k, e) =>
            /\ \A t \in Ths : <<"score_start", k, e, t>> \in hist
                                 => <<"score_end", k, e, t>> \in hist
            /\ (k = sub /\ e = err) => \A t \in Ths : tasks[t] \notin {"queued", "running"}

\* In pool mode a ScoreFile is read after one task failed and one succeeded.
C2_Witness ==
    /\ num_workers = 2
    /\ ScoresLoaded(sub, err)
    /\ tasks[1] = "failed" /\ tasks[2] = "ok"

\* C3: in sequential mode a score task that returned a non-zero status has
\* aborted the run: no ScoreFile of that error type was or will be read, no
\* mAP of it and no final scores of the submission are produced.
C3_SequentialFatality ==
    (num_workers = 1 /\ \E t \in Ths : tasks[t] = "failed") =>
        /\ pc = "aborted" /\ raised = "RuntimeError:scores"
        /\ ~ENABLED Next
        /\ ~ScoresLoaded(sub, err)
        /\ <<"mAP", sub, err>> \notin hist
        /\ <<"save_final", sub>> \notin hist

\* The second score command of the second error type failed.
C3_Witness ==
    /\ num_workers = 1 /\ err = 2
    /\ tasks[1] = "ok" /\ tasks[2] = "failed"

ErrorsStageFailed(k, e) == \E st \in ExitStatuses \ {0} : <<"error_end", k, e, st>> \in hist

\* C4: when the error computation of error type e returned a non-zero status,
\* the run is aborted; no score task of e, no stage of a later error type and
\* no mAP of e were started or produced, and no final scores are written for
\* the submission.
C4_ErrorStageFatal ==
    \A k \in Subs, e \in ErrIdx :
        ErrorsStageFailed(k, e) =>
            /\ pc = "aborted" /\ raised = "RuntimeError:errors"
            /\ sub = k /\ err = e
            /\ ~ENABLED Next
            /\ ~ScoreStarted(k, e)
            /\ \A e2 \in ErrIdx : e2 > e =>
                  /\ <<"error_start", k, e2>> \notin hist
                  /\ ~ScoreStarted(k, e2)
            /\ <<"mAP", k, e>> \notin hist
            /\ <<"save_final", k>> \notin hist

\* The error computation of the second error type failed, after the first
\* error type was aggregated.
C4_Witness ==
    /\ ErrorsStageFailed(1, 2)
    /\ <<"mAP", 1, 1>> \in hist

PoolMode == num_workers > 1

Terminated(ts) == \A t \in Ths : ts[t] \in {"ok", "failed"}

\* C5: in pool mode a failed score task never raises the score-stage error;
\* while a task is queued or running the dispatcher stays in join, and once
\* all have terminated, failed or not, its next step is the aggregation.
C5_PoolFailureNotFatal ==
    PoolMode =>
        /\ raised # "RuntimeError:scores"
        /\ (pc = "pool_join" /\ ~Terminated(tasks)) => ~ENABLED PoolJoin
        /\ (pc = "pool_join" /\ Terminated(tasks)) => ENABLED PoolJoin
        /\ pc \in {"aggregate", "load_scores", "load_num_instances", "per_object"}
              => Terminated(tasks)

\* Every task of the pool failed and the aggregation has begun.
C5_Witness ==
    /\ PoolMode
    /\ \A t \in Ths : tasks[t] = "failed"
    /\ pc = "load_scores"

StagesOf(k) ==
    {ev \in hist : ev[1] \in {"error_start", "score_start"} /\ ev[2] = k}

\* C6: an exception ends the run: nothing runs after it, no final scores are
\* written for the submission it occurred in, no stage of a later submission
\* was or will be invoked; and a submission's external stages start only
\* after its timing validation has completed.
C6_FatalStopsRun ==
    /\ raised # "none" =>
          /\ pc = "aborted"
          /\ ~ENABLED Next
          /\ <<"save_final", sub>> \notin hist
          /\ \A k \in Subs : k > sub => StagesOf(k) = {} /\ <<"save_final", k>> \notin hist
    /\ pc = "aborted" => raised # "none"
    /\ \A k \in Subs : StagesOf(k) # {} => <<"timing_done", k>> \in hist

\* The assertion failed in the first of two submissions.
C6_Witness ==
    /\ raised = "AssertionError"
    /\ sub = 1 /\ Len(result_filenames) = 2

\* ------------------------------------------- aggregation over all ScoreFiles
Ones == [t \in Ths |-> 1]

\* The ScoreFile of every threshold of the first error type in the states
\* the aggregation of the second error type starts from: object 2 counted,
\* object 1 without instances (zero1) or counted.
MssdFile(zero1) ==
    [o \in 1..2 |-> IF o = 1 /\ zero1 THEN [score |-> 0, n |-> 0]
                    ELSE [score |-> 1, n |-> 1]]

\* The events of submission 1 up to the aggregation of error type e.
HistBefore(e) ==
    {<<"timing_done", 1>>}
    \cup {<<"error_start", 1, d>> : d \in 1..e}
    \cup {<<"error_end", 1, d, 0>> : d \in 1..e}
    \cup {<<"score_start", 1, d, t>> : d \in 1..e, t \in Ths}
    \cup {<<"score_end", 1, d, t>> : d \in 1..e, t \in Ths}
    \cup {<<"load_json", 1, d, t, c>> : d \in 1..(e - 1), t \in Ths, c \in 1..2}
    \cup {<<"mAP", 1, d>> : d \in 1..(e - 1)}

\* The states at line 217 of the first submission, in pool mode with every
\* score task terminated: before the first error type, or before the second
\* with what the aggregation of the first left in the variables.
InitAgg ==
    /\ num_workers = 2
    /\ result_filenames = <<<<"a", "r">>, <<"q">>>>
    /\ pc = "aggregate"
    /\ raised = "none"
    /\ sub = 1
    /\ ests = <<Est(1, 1, 0)>> /\ est_i = 2
    /\ times = <<<<<<1, 1>>, 0>>>> /\ times_available = TRUE
    /\ average_time_per_image = <<0, 1>>
    /\ calc_errors = "ok"
    /\ cmd_i = 1
    /\ tasks = [t \in Ths |-> "ok"]
    /\ workers = <<>>
    /\ final_files = [n \in ResultNames |-> Missing]
    /\ err \in ErrIdx
    /\ hist = HistBefore(err)
    /\ \E zero1 \in BOOLEAN, files \in [Ths -> ScoreFiles] :
          /\ err = 1 => zero1
          /\ score_files =
                [f \in ResultNames \X ErrIdx \X Ths |->
                    IF f[1] # "r" \/ f[2] > err THEN Missing
                    ELSE IF f[2] = err THEN File(files[f[3]])
                    ELSE File(MssdFile(zero1))]
          /\ IF err = 1
             THEN /\ th_i = 1 /\ scores = <<>> /\ num_instances_per_object = <<>>
                  /\ mAP_scores_per_object = <<>> /\ num_object_ids_ignored = <<>>
                  /\ obj_i = 1 /\ mAP_over_correct_ths = <<>>
                  /\ mAP_per_error_type = <<>>
             ELSE /\ th_i = NumThs + 1
                  /\ scores = [o \in 1..2 |-> MssdFile(zero1)[o].score]
                  /\ num_instances_per_object = [o \in 1..2 |-> MssdFile(zero1)[o].n]
                  /\ mAP_scores_per_object =
                        IF zero1 THEN <<<<2, Ones>>>> ELSE <<<<1, Ones>>, <<2, Ones>>>>
                  /\ num_object_ids_ignored = IF zero1 THEN Ones ELSE <<>>
                  /\ obj_i = Len(mAP_scores_per_object) + 1
                  /\ mAP_over_correct_ths = [i \in 1..Len(mAP_scores_per_object) |-> <<1, 1>>]
                  /\ mAP_per_error_type = <<<<"mssd", <<1, 1>>>>>>

NextAgg ==
    \/ BeginAggregation
    \/ LoadScores
    \/ LoadNumInstances
    \/ PerObjectStep
    \/ ErrorTypeMAP
    \/ SaveFinalScores

SpecAgg == InitAgg /\ [][NextAgg]_vars

\* ----------------------------------------------------- claims: aggregation
\* The ScoreFile of threshold t of error type e of submission k.
ThFile(k, e, t) == score_files[ScoresPath(k, e, t)][1]

ZeroIn(k, e, o) ==
    \E t \in Ths : o \in DOMAIN ThFile(k, e, t) /\ ThFile(k, e, t)[o].n = 0

PositiveIn(k, e, o) ==
    \E t \in Ths : o \in DOMAIN ThFile(k, e, t) /\ ThFile(k, e, t)[o].n > 0

Mixed(k, e, o) == ZeroIn(k, e, o) /\ PositiveIn(k, e, o)

AllZero(k, e, o) == ZeroIn(k, e, o) /\ ~PositiveIn(k, e, o)

\* The per-object pass of the current error type is running or has failed.
InPerObjectPass == pc = "per_object" \/ raised = "AssertionError"

\* The objects whose mean has been appended to mAP_over_correct_ths.
Averaged == {mAP_scores_per_object[i][1] : i \in 1..Len(mAP_over_correct_ths)}

\* C9: no averaged object has zero instances in a threshold file of the
\* error type; an mAP is produced for an error type only if no object has
\* zero instances in one of its threshold files and a positive count in
\* another; and the assertion fails only on such an object of the current
\* error type, whatever an earlier error type ignored.
C9_DataInconsistency ==
    /\ InPerObjectPass => \A o \in Averaged : ~ZeroIn(sub, err, o)
    /\ \A k \in Subs, e \in ErrIdx :
          <<"mAP", k, e>> \in hist => \A o \in ObjIds : ~Mixed(k, e, o)
    /\ raised = "AssertionError" =>
          Mixed(sub, err, mAP_scores_per_object[obj_i][1])

\* The assertion fails on the second object of the second error type, after
\* the first object was averaged.
C9_Witness ==
    /\ raised = "AssertionError"
    /\ err = 2 /\ obj_i = 2 /\ Len(mAP_over_correct_ths) = 1

\* C10: an object with zero instances in every threshold file of the error
\* type that lists it has no entry in the per-object score lists and no mean
\* among the averaged ones, and the assertion never fails on it.
C10_ZeroInstanceExclusion ==
    /\ InPerObjectPass =>
          \A o \in ObjIds : AllZero(sub, err, o) =>
              o \notin Keys(mAP_scores_per_object) /\ o \notin Averaged
    /\ raised = "AssertionError" =>
          ~AllZero(sub, err, mAP_scores_per_object[obj_i][1])

\* An mAP of the second error type is produced although object 1 has zero
\* instances in all its threshold files.
C10_Witness ==
    /\ <<"mAP", 1, 2>> \in hist
    /\ AllZero(1, 2, 1)
    /\ \A t \in Ths : 1 \in DOMAIN ThFile(1, 2, t)

\* ------------------------------------------ averaging over recorded scores
\* Recall scores in tenths: 0.2, 0.4, 0.6 and 1.0.
AvgScores == {2, 4, 6, 10}

RecordedLists == UNION {[1..n -> AvgScores] : n \in 1..MaxRecorded}

\* mAP_scores_per_object after loop 3: no, one or two objects, each with the
\* scores recorded for it (one per threshold file that counts it).
RecordedDicts ==
    {<<>>}
    \cup {<<<<o, l>>>> : o \in 1..2, l \in RecordedLists}
    \cup {<<<<1, l1>>, <<2, l2>>>> : l1 \in RecordedLists, l2 \in RecordedLists}

\* The states at line 253 of the first error type of the first submission,
\* over the score lists that the thresholds of a configuration may have
\* recorded.
InitAvg ==
    /\ num_workers = 2
    /\ result_filenames = <<<<"a", "r">>, <<"q">>>>
    /\ pc = "per_object"
    /\ raised = "none"
    /\ sub = 1
    /\ ests = <<Est(1, 1, 0)>> /\ est_i = 2
    /\ times = <<<<<<1, 1>>, 0>>>> /\ times_available = TRUE
    /\ average_time_per_image = <<0, 1>>
    /\ err = 1
    /\ calc_errors = "ok"
    /\ cmd_i = 1
    /\ tasks = [t \in Ths |-> "ok"]
    /\ workers = <<>>
    /\ score_files = [f \in ResultNames \X ErrIdx \X Ths |->
                         IF f[1] = "r" /\ f[2] = 1 THEN File(MssdFile(FALSE)) ELSE Missing]
    /\ final_files = [n \in ResultNames |-> Missing]
    /\ th_i = NumThs + 1
    /\ scores = [o \in 1..2 |-> MssdFile(FALSE)[o].score]
    /\ num_instances_per_object = [o \in 1..2 |-> MssdFile(FALSE)[o].n]
    /\ mAP_scores_per_object \in RecordedDicts
    /\ num_object_ids_ignored = <<>>
    /\ obj_i = 1
    /\ mAP_over_correct_ths = <<>>
    /\ mAP_per_error_type = <<>>
    /\ hist = HistBefore(1) \cup {<<"load_json", 1, 1, t, c>> : t \in Ths, c \in 1..2}

NextAvg ==
    \/ PerObjectStep
    \/ ErrorTypeMAP

SpecAvg == InitAvg /\ [][NextAvg]_vars

\* ------------------------------------------------------ claims: averaging
RECURSIVE ProdLens(_)
ProdLens(d) == IF d = <<>> THEN 1 ELSE Len(Head(d)[2]) * ProdLens(Tail(d))

\* The sum over the objects of d of (sum of the object's scores) * P / (number
\* of the object's scores), P a common multiple of the numbers of scores.
RECURSIVE ScaledSumOfMeans(_, _)
ScaledSumOfMeans(d, P) ==
    IF d = <<>> THEN 0
    ELSE SumSeq(Head(d)[2]) * (P \div Len(Head(d)[2])) + ScaledSumOfMeans(Tail(d), P)

\* C11: the mAP of an error type is the unweighted mean, over the objects
\* with a recorded score, of the object's mean recorded score: with n objects
\* and P the product of their numbers of scores,
\* mAP = (sum over objects of sum(scores) / count) / n.
C11_AveragingCorrectness ==
    (<<"mAP", 1, 1>> \in hist /\ mAP_scores_per_object # <<>>) =>
        LET m == Lookup(mAP_per_error_type, "mssd")
            P == ProdLens(mAP_scores_per_object)
        IN  /\ m # NaN /\ m[2] > 0
            /\ m[1] * Len(mAP_scores_per_object) * P
                  = m[2] * ScaledSumOfMeans(mAP_scores_per_object, P)

\* Object 1 with scores 0.2, 0.4, 0.6 and object 2 with scores 1.0, 1.0 give
\* the mAP 0.7.
C11_Witness ==
    /\ <<"mAP", 1, 1>> \in hist
    /\ mAP_scores_per_object = <<<<1, <<2, 4, 6>>>>, <<2, <<10, 10>>>>>>
    /\ Lookup(mAP_per_error_type, "mssd") = <<7, 1>>

\* ------------------------------------------------------- final scores only
\* Per-error-type mAP values: the multiples of 0.1 and the mean of no object.
MAPValues == {Rat(n, 10) : n \in 0..10} \cup {NaN}

\* What the timing loop leaves: no estimate, one estimate without time, one
\* image, two images.
TimingOutcomes ==
    {[ests |-> <<>>, est_i |-> 1, times |-> <<>>, available |-> TRUE],
     [ests |-> <<Est(1, 1, -1)>>, est_i |-> 1, times |-> <<>>, available |-> FALSE],
     [ests |-> <<Est(1, 1, 0)>>, est_i |-> 2,
      times |-> <<<<<<1, 1>>, 0>>>>, available |-> TRUE],
     [ests |-> <<Est(1, 1, 1), Est(1, 2, 2)>>, est_i |-> 3,
      times |-> <<<<<<1, 1>>, 1>>, <<<<1, 2>>, 2>>>>, available |-> TRUE]}

\* The states at line 270 of the first submission, both error types
\* aggregated.
InitFinal ==
    /\ num_workers = 2
    /\ result_filenames = <<<<"a", "r">>, <<"q">>>>
    /\ pc = "final_scores"
    /\ raised = "none"
    /\ sub = 1
    /\ \E o \in TimingOutcomes :
           /\ ests = o.ests /\ est_i = o.est_i
           /\ times = o.times /\ times_available = o.available
           /\ average_time_per_image = AverageTimePerImage(o.times, o.available)
    /\ err = 2
    /\ calc_errors = "ok"
    /\ cmd_i = 1
    /\ tasks = [t \in Ths |-> "ok"]
    /\ workers = <<>>
    /\ score_files = [f \in ResultNames \X ErrIdx \X Ths |->
                         IF f[1] = "r" THEN File(MssdFile(FALSE)) ELSE Missing]
    /\ final_files = [n \in ResultNames |-> Missing]
    /\ th_i = NumThs + 1
    /\ scores = [o \in 1..2 |-> MssdFile(FALSE)[o].score]
    /\ num_instances_per_object = [o \in 1..2 |-> MssdFile(FALSE)[o].n]
    /\ mAP_scores_per_object = <<>>
    /\ num_object_ids_ignored = <<>>
    /\ obj_i = 1
    /\ mAP_over_correct_ths = <<>>
    /\ \E a \in MAPValues, b \in MAPValues :
           mAP_per_error_type = <<<<"mssd", a>>, <<"mspd", b>>>>
    /\ hist = HistBefore(2) \cup {<<"mAP", 1, 2>>}
                \cup {<<"load_json", 1, 2, t, c>> : t \in Ths, c \in 1..2}

NextFinal == SaveFinalScores

SpecFinal == InitFinal /\ [][NextFinal]_vars

\* ------------------------------------------------------ claims: final scores
\* C12: the persisted bop24_mAP is the unweighted arithmetic mean of the mssd
\* and mspd mAP values, the two per-error-type fields are those values, and
\* bop24_average_time_per_image is the timing summary unchanged, the
\* sentinel -1.0 included.
C12_CombinedMAP ==
    (<<"save_final", 1>> \in hist /\ sub = 2 /\ pc = "load_results") =>
        /\ final_files["r"] # Missing
        /\ LET f == final_files["r"][1]
               a == Lookup(mAP_per_error_type, "mssd")
               b == Lookup(mAP_per_error_type, "mspd")
               m == f.bop24_mAP
           IN  /\ f.bop24_mAP_mssd = a
               /\ f.bop24_mAP_mspd = b
               /\ f.bop24_average_time_per_image = average_time_per_image
               /\ (a # NaN /\ b # NaN) =>
                      /\ m # NaN /\ m[2] > 0
                      /\ m[1] * 2 * a[2] * b[2] = m[2] * (a[1] * b[2] + b[1] * a[2])

\* mAP values 0.70 and 0.50 and no timing give 0.60 and -1.0.
C12_Witness ==
    /\ <<"save_final", 1>> \in hist
    /\ mAP_per_error_type = <<<<"mssd", <<7, 10>>>>, <<"mspd", <<1, 2>>>>>>
    /\ average_time_per_image = <<-TimeScale, 1>>
    /\ final_files["r"] = File([bop24_mAP_mssd |-> <<7, 10>>,
                                bop24_mAP_mspd |-> <<1, 2>>,
                                bop24_mAP |-> <<3, 5>>,
                                bop24_average_time_per_image |-> <<-TimeScale, 1>>])

\* ------------------------------------------------- claims: empty submission
\* C13: an empty estimate sequence yields the sentinel -1.0 as the timing
\* summary.
C13_Original ==
    (<<"timing_done", sub>> \in hist /\ ests = <<>>) =>
        average_time_per_image = <<-TimeScale, 1>>

\* What the code computes: with no estimate the loop never clears
\* times_available, and the summary is the mean of no time.
C13_EmptyGivesNaN ==
    (<<"timing_done", sub>> \in hist /\ ests = <<>>) =>
        /\ times_available
        /\ average_time_per_image = NaN

C13_Witness ==
    /\ <<"timing_done", sub>> \in hist
    /\ ests = <<>>
    /\ average_time_per_image = NaN

\* ------------------------------------------- claims: failure of a pool task
\* Score task t of the current error type of the current submission has
\* terminated with a non-zero status.
FailedNow(t) == tasks[t] = "failed" /\ <<"score_end", sub, err, t>> \in hist

AggregatedNow == <<"mAP", sub, err>> \in hist

\* C14 as stated: in pool mode, after a score task has terminated with a
\* non-zero status, the aggregation of that error type does not complete and
\* no FinalScores is written for the submission.
C14_Original ==
    \A t \in Ths :
        (PoolMode /\ FailedNow(t)) =>
            /\ ~AggregatedNow
            /\ <<"save_final", sub>> \notin hist

\* C14 as the code has it: in pool mode, a score task that terminates with a
\* non-zero status does not itself abort the run; when no file exists at its
\* path, the aggregation of that error type gets no further than that
\* threshold, fails there with an I/O error, and no FinalScores is written
\* for the submission.
C14_PoolFailureMissingFile ==
    \A t \in Ths :
        (PoolMode /\ FailedNow(t) /\ score_files[ScoresPath(sub, err, t)] = Missing) =>
            /\ pc \in {"pool_join", "aggregate", "load_scores", "load_num_instances",
                       "aborted"}
            /\ pc = "aborted" => raised = "IOError"
            /\ pc \in {"load_scores", "load_num_instances"} => th_i <= t
            /\ \A c \in 1..2 : <<"load_json", sub, err, t, c>> \notin hist
            /\ ~AggregatedNow
            /\ <<"save_final", sub>> \notin hist

C14_Witness ==
    /\ PoolMode
    /\ \E t \in Ths :
           /\ FailedNow(t)
           /\ score_files[ScoresPath(sub, err, t)] = Missing
           /\ th_i = t
    /\ pc = "aborted"
    /\ raised = "IOError"

\* ------------------------------------------------ claims: reads and writes
\* C15: for every error type and threshold the aggregator reads the
\* ScoreFile one time: the read of line 232 is not followed by another read
\* of the same file.
C15_Original ==
    \A k \in Subs, e \in ErrIdx, t \in Ths :
        ~(<<"load_json", k, e, t, 1>> \in hist /\ <<"load_json", k, e, t, 2>> \in hist)

\* The first ScoreFile of a run has been loaded at line 232 and again at
\* line 233.
C15_Witness ==
    /\ <<"load_json", 1, 1, 1, 1>> \in hist
    /\ <<"load_json", 1, 1, 1, 2>> \in hist

\* C16: the FinalScores written for one listed submission is not overwritten
\* by the evaluation of another listed submission: two submissions whose
\* final scores have been saved have different artifact paths.
C16_Original ==
    \A j \in Subs, k \in Subs :
        (j < k /\ <<"save_final", j>> \in hist /\ <<"save_final", k>> \in hist) =>
            ResultName(result_filenames[j]) # ResultName(result_filenames[k])

\* Two result files of the same base name in different folders have both
\* been evaluated; the one artifact of that name holds the second's scores.
C16_Witness ==
    /\ result_filenames = <<<<"a", "r">>, <<"b", "r">>>>
    /\ <<"save_final", 1>> \in hist
    /\ <<"save_final", 2>> \in hist
    /\ final_files["r"] # Missing

\* ------------------------------------------------- claims: sequential order
\* C17: with num_workers = 1 a score task has started only after every
\* earlier task of the error type has terminated; among the tasks of the
\* current error type every task before a started one has status zero, at
\* most one runs, and after a non-zero status no later task is started.
C17_SequentialOrder ==
    num_workers = 1 =>
        /\ \A k \in Subs, e \in ErrIdx, t \in Ths :
               <<"score_start", k, e, t>> \in hist =>
                   \A u \in 1..(t - 1) : <<"score_end", k, e, u>> \in hist
        /\ \A t \in Ths :
               tasks[t] \in {"running", "ok", "failed"} =>
                   \A u \in 1..(t - 1) : tasks[u] = "ok"
        /\ \A t \in Ths :
               tasks[t] = "failed" =>
                   \A u \in (t + 1)..NumThs :
                       /\ tasks[u] = "none"
                       /\ <<"score_start", sub, err, u>> \notin hist
        /\ \A t \in Ths : tasks[t] # "queued"

\* The first task has returned zero and the second runs; in another run the
\* first failed and the second never started.
C17_Witness ==
    /\ num_workers = 1
    /\ tasks[1] = "ok" /\ tasks[2] = "running"
    /\ <<"score_end", sub, err, 1>> \in hist
    /\ <<"score_start", sub, err, 2>> \in hist

\* ---------------------------------------------- claims: choice of the mode
\* C19: the sequential path is taken with num_workers = 1 and with no other
\* value; every other value takes the pool path, and with num_workers <= 0
\* the pool cannot be created: once the first error stage has succeeded the
\* run is at the dispatch or aborted by the pool's ValueError, and no score
\* task is ever started, no mAP computed and no FinalScores written.
C19_ModeSelection ==
    /\ num_workers # 1 =>
           /\ pc \notin {"seq_scores", "wait_score"}
           /\ raised # "RuntimeError:scores"
           /\ pc = "dispatch" => (ENABLED PoolDispatch /\ ~ENABLED EnterSequential)
    /\ num_workers = 1 =>
           /\ pc # "pool_join"
           /\ raised # "ValueError:pool"
           /\ pc = "dispatch" => (ENABLED EnterSequential /\ ~ENABLED PoolDispatch)
    /\ num_workers <= 0 =>
           /\ \A k \in Subs, e \in ErrIdx, t \in Ths :
                  <<"score_start", k, e, t>> \notin hist
           /\ \A k \in Subs, e \in ErrIdx : <<"mAP", k, e>> \notin hist
           /\ \A k \in Subs : <<"save_final", k>> \notin hist
           /\ \A n \in ResultNames : final_files[n] = Missing
           /\ pc \notin {"pool_join", "aggregate", "done"}
           /\ <<"error_end", 1, 1, 0>> \in hist =>
                  \/ pc = "dispatch"
                  \/ pc = "aborted" /\ raised = "ValueError:pool"
    /\ raised = "ValueError:pool" => num_workers <= 0

\* A negative worker count: the error stage succeeded and the creation of
\* the pool ended the run.
C19_Witness ==
    /\ num_workers = -1
    /\ <<"error_end", 1, 1, 0>> \in hist
    /\ pc = "aborted"
    /\ raised = "ValueError:pool"
    /\ tasks = NoTasks

\* ---------------------------------------------------------------- progress
\* The evaluation is one process that always takes its next step, and every
\* external task that has been started terminates.
SpecLive == Init /\ [][Next]_vars /\ WF_vars(Next)

\* ------------------------------------------------------ claims: progress
RunOver == pc \in {"done", "aborted"}

AllSaved == \A k \in Subs : <<"save_final", k>> \in hist

\* Calls of the dispatcher that wait for an external task.
Waiting ==
    \/ pc = "wait_errors" /\ calc_errors = "running"
    \/ pc = "wait_score" /\ tasks[cmd_i] = "running"
    \/ pc = "pool_join" /\ ~Terminated(tasks)

\* A step taken while the dispatcher waits is a step of an external task,
\* and the dispatcher leaves the call only with the task it waits for
\* terminated.
WaitingStep ==
    /\ pc = "wait_errors" =>
           calc_errors = "running" /\ calc_errors' \in {"ok", "failed"}
    /\ pc = "wait_score" =>
           tasks[cmd_i] = "running" /\ tasks'[cmd_i] \in {"ok", "failed"}
    /\ pc = "pool_join" =>
           \/ pc' = "aggregate" /\ Terminated(tasks) /\ tasks' = tasks
           \/ pc' = "pool_join" /\ tasks' # tasks

\* C18: when every external task terminates, every run ends, completed with
\* the FinalScores of every submission written, or aborted; while the
\* dispatcher waits for an external task nothing but that task's steps
\* happens, and no score of the waiting stage is loaded, no mAP of it
\* computed and no FinalScores of the submission written.
C18_Progress ==
    /\ <>RunOver
    /\ [](pc = "done" => AllSaved)
    /\ [][WaitingStep]_vars
    /\ [](Waiting =>
             /\ ~ScoresLoaded(sub, err)
             /\ <<"mAP", sub, err>> \notin hist
             /\ <<"save_final", sub>> \notin hist
             /\ ~ENABLED (BeginAggregation \/ LoadScores \/ LoadNumInstances
                          \/ PerObjectStep \/ ErrorTypeMAP \/ SaveFinalScores
                          \/ StartCalcErrors \/ StartScoreCmd \/ PoolJoin))

\* A run in pool mode has ended with the FinalScores of both submissions
\* written.
C18_Witness ==
    /\ pc = "done"
    /\ num_workers = 2
    /\ AllSaved
    /\ \A t \in Ths : <<"score_end", sub, err, t>> \in hist

\* --------------------------------------- claims: no object with instances
\* Every threshold file of error type e of the first submission is there,
\* and none lists an object with a positive number of instances.
NoPositiveCount(e) ==
    \A t \in Ths :
        /\ score_files[ScoresPath(1, e, t)] # Missing
        /\ \A o \in DOMAIN ThFile(1, e, t) : ThFile(1, e, t)[o].n = 0

AggregationPcs ==
    {"aggregate", "load_scores", "load_num_instances", "per_object", "final_scores"}

\* C20: when no object of an error type has a positive instance count in any
\* threshold file, the aggregation of the error type does not abort and
\* always has a next step, the error type's mAP is the mean of no value, and
\* the final scores are written with that mAP and the combined bop24_mAP
\* both undefined.
C20_NoCountedObject ==
    /\ (sub = 1 /\ NoPositiveCount(err)) =>
           /\ pc # "aborted" /\ raised = "none"
           /\ pc \in AggregationPcs => ENABLED NextAgg
           /\ mAP_scores_per_object = <<>> \/ pc \in {"aggregate", "load_scores"}
    /\ \A e \in ErrIdx :
           (NoPositiveCount(e) /\ <<"mAP", 1, e>> \in hist) =>
               /\ Lookup(mAP_per_error_type, Errors[e]) = NaN
               /\ <<"save_final", 1>> \in hist =>
                      /\ final_files["r"] # Missing
                      /\ final_files["r"][1].bop24_mAP = NaN
                      /\ e = 1 => final_files["r"][1].bop24_mAP_mssd = NaN
                      /\ e = 2 => final_files["r"][1].bop24_mAP_mspd = NaN

\* The files of the second error type list object 1 without instances; the
\* final scores hold the mAP 1 of the first error type and two undefined
\* values.
C20_Witness ==
    /\ NoPositiveCount(2)
    /\ \A t \in Ths : 1 \in DOMAIN ThFile(1, 2, t)
    /\ <<"save_final", 1>> \in hist
    /\ final_files["r"] # Missing
    /\ final_files["r"][1].bop24_mAP_mssd = <<1, 1>>
    /\ final_files["r"][1].bop24_mAP_mspd = NaN
    /\ final_files["r"][1].bop24_mAP = NaN

====
